---- MODULE Spec2Model ----
(***************************************************************************)
(* A model of the forked blockchain overlay of rethnet_evm                  *)
(* (crates/rethnet_evm/src/blockchain/forked.rs): a contiguous local store  *)
(* of appended blocks laid over a lazily filled cache of remote blocks.     *)
(*                                                                          *)
(* Values of type B256 are modelled as 4-tuples.  The hash of a header is   *)
(* the tuple of the header's fields (an injective function of the header,   *)
(* as a cryptographic hash is taken to be); a transaction hash is a tuple   *)
(* whose first component is negative, so that it differs from every block   *)
(* hash.  Option<T> is modelled as a sequence of length 0 (None) or 1       *)
(* (Some), Result<T, E> as a pair <<"ok", v>> or <<"err", e>>.              *)
(***************************************************************************)
EXTENDS Integers, Sequences, FiniteSets, Bags, TLC

\* Number of the latest block of the remote chain (blocks 0..RemoteLatest exist).
RemoteLatest == 2
\* Largest number of blocks appended to the local store.
MaxLocal == 2
\* Largest value of the machine index type (usize::MAX), scaled down.
UsizeMax == 4
\* Largest number the remote answers as its latest block number.
MaxLatest == 101
\* Largest value of u64 (u64::MAX), scaled down; U256 values go beyond it.
U64Max == 2
\* Largest transaction type of the transactions converted.
MaxType == 3

\* The threads that share the overlay.
Threads == {"t1", "t2"}
\* The fork block numbers construction can have chosen.
ForkChoices == 0..(RemoteLatest - 1)
\* The difficulties of the blocks offered to insert_block.
Difficulties == {1, 2}
\* The difficulty of the block offered with a number: 1 and 2 in turn.
OfferedDifficulty(number) == CHOOSE d \in Difficulties : d = (number % 2) + 1

VARIABLES
    fork_block_number,  \* ForkedBlockchain.fork_block_number
    local_storage,      \* ForkedBlockchain.local_storage: sequence of [block, total_difficulty]
    remote_cache,       \* ForkedBlockchain.remote_cache: bag of [block, total_difficulty]
    th,                 \* per thread: the call it is in, its position, its result
    served,             \* per block number: the block a block_by_number call returned first
    creation,           \* the call of ForkedBlockchain::new: its arguments and its outcome
    conversion          \* the call of SignedTransaction::try_from: its argument and its outcome

vars ==
    <<fork_block_number, local_storage, remote_cache, th, served, creation, conversion>>

----------------------------------------------------------------------------
\* Option and Result

None == <<>>

Some(x) == <<x>>

IsSome(o) == Len(o) = 1

Unwrap(o) == o[1]

Ok(v) == <<"ok", v>>

Err(e) == <<"err", e>>

IsOk(r) == r[1] = "ok"

IsErr(r) == r[1] = "err"

JsonRpcError == <<"JsonRpcError">>

BlockNumberTooLarge == <<"BlockNumberTooLarge">>

UnknownBlockNumber == <<"UnknownBlockNumber">>

InvalidParentHash == <<"InvalidParentHash">>

InvalidBlockNumber(actual, expected) == <<"InvalidBlockNumber", actual, expected>>

----------------------------------------------------------------------------
\* Hashes, headers and blocks

ZeroHash == <<0, <<>>, 0, {}>>

\* block.header.hash(): injective in the header.
Hash(header) ==
    <<header.number, header.parent_hash, header.difficulty, header.transactions_root>>

\* The hash of the k-th transaction hash space element (never a block hash).
TxHash(k) == <<0 - 1 - k, <<>>, 0, {}>>

\* A hash that is neither a block's nor a transaction's.
UnknownHash == <<0 - 1, <<>>, 1, {}>>

MkBlock(number, parent_hash, difficulty, transactions) ==
    [header |-> [number |-> number, parent_hash |-> parent_hash,
                 difficulty |-> difficulty, transactions_root |-> transactions],
     transactions |-> transactions]

----------------------------------------------------------------------------
\* The remote chain, as the JSON-RPC client reports it: block n holds one
\* transaction, has difficulty n + 1, and its parent is block n - 1.

RemoteTx(n) == TxHash(n)

RemoteBlockAt[n \in 0..RemoteLatest] ==
    MkBlock(n, IF n = 0 THEN ZeroHash ELSE Hash(RemoteBlockAt[n - 1].header),
            n + 1, {RemoteTx(n)})

RemoteTotalDifficulty[n \in 0..RemoteLatest] ==
    IF n = 0 THEN 1 ELSE RemoteTotalDifficulty[n - 1] + (n + 1)

\* What Block::try_from(block) and block.total_difficulty give for remote block n.
RemoteEntry(n) ==
    [block |-> RemoteBlockAt[n], total_difficulty |-> RemoteTotalDifficulty[n]]

RemoteNumbers == 0..RemoteLatest

\* rpc_client.get_block_by_number_with_transaction_data(BlockSpec::Number(n))
get_block_by_number_with_transaction_data(n) == RemoteEntry(n)

\* rpc_client.get_block_by_hash_with_transaction_data(hash)
get_block_by_hash_with_transaction_data(hash) ==
    IF \E n \in RemoteNumbers : Hash(RemoteBlockAt[n].header) = hash
    THEN Some(RemoteEntry(CHOOSE n \in RemoteNumbers : Hash(RemoteBlockAt[n].header) = hash))
    ELSE None

\* rpc_client.get_transaction_by_hash(hash): the transaction's own hash and
\* the hash of the block that contains it.
get_transaction_by_hash(hash) ==
    IF \E n \in RemoteNumbers : RemoteTx(n) = hash
    THEN Some([hash |-> hash,
               block_hash |-> Hash(RemoteBlockAt[CHOOSE n \in RemoteNumbers : RemoteTx(n) = hash].header)])
    ELSE None

----------------------------------------------------------------------------
\* SparseBlockchainStorage (the remote cache): a bag of entries, since
\* insert_block_unchecked does not look for an entry that is already there.

SparseEntries(cache) == BagToSet(cache)

sparse_block_by_number(cache, number) ==
    IF \E e \in SparseEntries(cache) : e.block.header.number = number
    THEN Some((CHOOSE e \in SparseEntries(cache) : e.block.header.number = number).block)
    ELSE None

sparse_block_by_hash(cache, hash) ==
    IF \E e \in SparseEntries(cache) : Hash(e.block.header) = hash
    THEN Some((CHOOSE e \in SparseEntries(cache) : Hash(e.block.header) = hash).block)
    ELSE None

sparse_block_by_transaction_hash(cache, hash) ==
    IF \E e \in SparseEntries(cache) : hash \in e.block.transactions
    THEN Some((CHOOSE e \in SparseEntries(cache) : hash \in e.block.transactions).block)
    ELSE None

sparse_total_difficulty_by_hash(cache, hash) ==
    IF \E e \in SparseEntries(cache) : Hash(e.block.header) = hash
    THEN Some((CHOOSE e \in SparseEntries(cache) : Hash(e.block.header) = hash).total_difficulty)
    ELSE None

sparse_insert_block_unchecked(cache, entry) == cache (+) SetToBag({entry})

\* ContiguousBlockchainStorage (the local store): a sequence of entries.

blocks(storage) == [i \in 1..Len(storage) |-> storage[i].block]

\* slice.get(index), with the slice's 0-based index.
get(slice, index) == IF index < Len(slice) THEN Some(slice[index + 1]) ELSE None

\* slice.last() that gives the first element.
last_first(slice) == IF Len(slice) > 0 THEN Some(slice[1]) ELSE None

\* slice.last()
last(slice) == IF Len(slice) > 0 THEN Some(slice[Len(slice)]) ELSE None

contiguous_block_by_hash(storage, hash) ==
    IF \E i \in 1..Len(storage) : Hash(storage[i].block.header) = hash
    THEN Some(storage[CHOOSE i \in 1..Len(storage) : Hash(storage[i].block.header) = hash].block)
    ELSE None

contiguous_block_by_transaction_hash(storage, hash) ==
    IF \E i \in 1..Len(storage) : hash \in storage[i].block.transactions
    THEN Some(storage[CHOOSE i \in 1..Len(storage) : hash \in storage[i].block.transactions].block)
    ELSE None

contiguous_total_difficulty_by_hash(storage, hash) ==
    IF \E i \in 1..Len(storage) : Hash(storage[i].block.header) = hash
    THEN Some(storage[CHOOSE i \in 1..Len(storage) : Hash(storage[i].block.header) = hash].total_difficulty)
    ELSE None

contiguous_insert_block_unchecked(storage, entry) == Append(storage, entry)

----------------------------------------------------------------------------
\* Threads.  A thread is in no call (pc = "done", with the result of its last
\* call in ret) or inside a read: waiting for the upgradable read hold
\* ("lock"), holding it while its RPC request is pending ("rpc"), holding it
\* with the fetched block, waiting to upgrade ("upgrade"), waiting for a
\* plain read hold ("readlock"), holding it ("read"), or waiting for
\* get_transaction_by_hash ("txrpc").

NoCall ==
    [pc |-> "done", op |-> "none", arg |-> None, key |-> None, ret |-> None,
     rpcs |-> 0, fetched |-> None, prior |-> FALSE, behind |-> FALSE]

\* The thread's record when it enters a call.
Enter(op, arg) ==
    [NoCall EXCEPT !.op = op, !.arg = arg, !.key = arg]

Returned(rec, ret) == [rec EXCEPT !.pc = "done", !.ret = ret, !.fetched = None]

ByNumberOps == {"block_hash", "block_by_number", "last_block"}

ByHashOps == {"block_by_hash", "total_difficulty_by_hash", "block_by_transaction_hash"}

\* The upgradable read hold dropped when the RPC request answers.
UpgradableHolders_rpc == {t \in Threads : th[t].pc = "rpc"}

\* The threads that hold the upgradable read hold of remote_cache.
UpgradableHolders == {t \in Threads : th[t].pc \in {"rpc", "upgrade"}}

\* The plain read hold kept until block_by_transaction_hash returns.
Readers_held ==
    {t \in Threads :
        th[t].op = "block_by_transaction_hash" /\ th[t].pc \notin {"done", "readlock"}}

\* The threads that hold a plain read hold of remote_cache.
Readers == {t \in Threads : th[t].pc = "read"}

\* insert_block takes &mut self: no other call is in progress.
Exclusive == \A t \in Threads : th[t].pc = "done"

\* last_block_number() that leaves the local store out.
last_block_number_fork == fork_block_number

\* Blockchain::last_block_number()
last_block_number == fork_block_number + Len(blocks(local_storage))

----------------------------------------------------------------------------
\* Pieces of the handlers

\* usize::try_from(number)
usize_try_from(number) ==
    IF number <= UsizeMax THEN Ok(number) ELSE Err(BlockNumberTooLarge)

\* upgradable_read() taken for read(): a hold that excludes no other reader.
upgradable_read_plain(t) == TRUE

\* The guard of remote_cache.upgradable_read(): at most one thread holds the
\* upgradable read hold (plain readers do not exclude it).
upgradable_read(t) == UpgradableHolders = {}

\* The guard of RwLockUpgradableReadGuard::upgrade(remote_cache): the write
\* hold is given once every plain read hold is dropped, the caller's own
\* included.
upgrade(t) == Readers = {}

\* The guard of remote_cache.read(): the lock is fair to writers, a plain
\* read hold is not given while a thread waits to upgrade (the write hold
\* itself is taken and dropped within admit).
read(t) == \A u \in Threads : th[u].pc /= "upgrade"

\* A lookup that never finds the block.
CachedResult_miss(rec) == None

\* What a read finds in the remote cache under its read hold: None, or
\* Some(result of the call).
CachedResult(rec) ==
    CASE rec.op = "block_hash" ->
            LET b == sparse_block_by_number(remote_cache, rec.key)
            IN  IF IsSome(b) THEN Some(Ok(Hash(Unwrap(b).header))) ELSE None
      [] rec.op = "block_by_number" ->
            LET b == sparse_block_by_number(remote_cache, rec.key)
            IN  IF IsSome(b) THEN Some(Ok(b)) ELSE None
      [] rec.op = "last_block" ->
            LET b == sparse_block_by_number(remote_cache, fork_block_number)
            IN  IF IsSome(b) THEN Some(Ok(Unwrap(b))) ELSE None
      [] rec.op \in {"block_by_hash", "block_by_transaction_hash"} ->
            LET b == sparse_block_by_hash(remote_cache, rec.key)
            IN  IF IsSome(b) THEN Some(Ok(b)) ELSE None
      [] rec.op = "total_difficulty_by_hash" ->
            LET d == sparse_total_difficulty_by_hash(remote_cache, rec.key)
            IN  IF IsSome(d) THEN Some(Ok(d)) ELSE None

\* What the RPC request of a read answers: None (not found) or Some(entry).
Fetch(rec) ==
    CASE rec.op \in {"block_hash", "block_by_number"} ->
            Some(get_block_by_number_with_transaction_data(rec.key))
      [] rec.op = "last_block" ->
            Some(get_block_by_number_with_transaction_data(fork_block_number))
      [] rec.op \in ByHashOps ->
            get_block_by_hash_with_transaction_data(rec.key)

\* What a read returns after it admitted the fetched entry.
AdmittedResult(rec, entry) ==
    CASE rec.op = "block_hash" -> Ok(Hash(entry.block.header))
      [] rec.op = "block_by_number" -> Ok(Some(entry.block))
      [] rec.op = "last_block" -> Ok(entry.block)
      [] rec.op \in {"block_by_hash", "block_by_transaction_hash"} -> Ok(Some(entry.block))
      [] rec.op = "total_difficulty_by_hash" -> Ok(Some(entry.total_difficulty))

\* The ghost record of the block block_by_number returned first for a number.
Serve(rec, ret) ==
    IF /\ rec.op = "block_by_number"
       /\ rec.arg <= fork_block_number
       /\ IsOk(ret)
       /\ served[rec.arg] = None
    THEN [served EXCEPT ![rec.arg] = ret[2]]
    ELSE served

\* Thread t returns ret from the call rec.
Return(t, rec, ret) ==
    /\ th' = [th EXCEPT ![t] = Returned(rec, ret)]
    /\ served' = Serve(rec, ret)

RemoteHashes == {Hash(RemoteBlockAt[n].header) : n \in RemoteNumbers}

\* The block number a read is after in the remote chain, or -1.
Target(rec) ==
    CASE rec.op \in {"block_hash", "block_by_number"} -> rec.key
      [] rec.op = "last_block" -> fork_block_number
      [] rec.op \in ByHashOps /\ rec.key \in RemoteHashes ->
            CHOOSE n \in RemoteNumbers : Hash(RemoteBlockAt[n].header) = rec.key
      [] OTHER -> 0 - 1

\* The ghost record of a call that comes to the hold behind another thread's
\* fetch of the same remote block: that thread has missed the block in the
\* cache and has not admitted it yet.
Behind(t, rec) ==
    \E u \in UpgradableHolders \ {t} :
        Target(rec) >= 0 /\ Target(th[u]) = Target(rec)

\* Thread t goes on waiting for the upgradable read hold.
WaitLock(t, rec) ==
    /\ th' = [th EXCEPT ![t] = [rec EXCEPT !.pc = "lock", !.behind = Behind(t, rec)]]
    /\ UNCHANGED served

Idle(t) == th[t].pc = "done"

----------------------------------------------------------------------------
\* The read handlers, up to their first wait

\* BlockHashRef::block_hash(number)
block_hash(t, number) ==
    /\ Idle(t)
    /\ UNCHANGED <<fork_block_number, local_storage, remote_cache, creation, conversion>>
    /\ LET rec == Enter("block_hash", number)
       IN  IF number <= fork_block_number
           THEN WaitLock(t, rec)
           ELSE LET index == usize_try_from(number)
                    block == get(blocks(local_storage), index[2])
                IN  IF IsErr(index)
                    THEN Return(t, rec, index)
                    ELSE IF IsSome(block)
                         THEN Return(t, rec, Ok(Hash(Unwrap(block).header)))
                         ELSE Return(t, rec, Err(UnknownBlockNumber))

\* Blockchain::block_by_hash(hash), also entered from block_by_transaction_hash
block_by_hash_from(t, rec) ==
    LET block == contiguous_block_by_hash(local_storage, rec.key)
    IN  IF IsSome(block)
        THEN Return(t, rec, Ok(block))
        ELSE WaitLock(t, rec)

block_by_hash(t, hash) ==
    /\ Idle(t)
    /\ UNCHANGED <<fork_block_number, local_storage, remote_cache, creation, conversion>>
    /\ block_by_hash_from(t, Enter("block_by_hash", hash))

\* Blockchain::block_by_number(number)
block_by_number(t, number) ==
    /\ Idle(t)
    /\ UNCHANGED <<fork_block_number, local_storage, remote_cache, creation, conversion>>
    /\ LET rec == Enter("block_by_number", number)
       IN  IF number <= fork_block_number
           THEN WaitLock(t, [rec EXCEPT !.prior = IsSome(served[number])])
           ELSE LET index == usize_try_from(number)
                IN  IF IsErr(index)
                    THEN Return(t, rec, index)
                    ELSE Return(t, rec, Ok(get(blocks(local_storage), index[2])))

\* Blockchain::block_by_transaction_hash(transaction_hash), up to its read()
block_by_transaction_hash(t, transaction_hash) ==
    /\ Idle(t)
    /\ UNCHANGED <<fork_block_number, local_storage, remote_cache, served, creation, conversion>>
    /\ LET rec == Enter("block_by_transaction_hash", transaction_hash)
           block == contiguous_block_by_transaction_hash(local_storage, transaction_hash)
       IN  IF IsSome(block)
           THEN th' = [th EXCEPT ![t] = Returned(rec, Ok(block))]
           ELSE th' = [th EXCEPT ![t] = [rec EXCEPT !.pc = "readlock"]]

\* Blockchain::last_block()
last_block(t) ==
    /\ Idle(t)
    /\ UNCHANGED <<fork_block_number, local_storage, remote_cache, creation, conversion>>
    /\ LET rec == Enter("last_block", None)
           block == last(blocks(local_storage))
       IN  IF IsSome(block)
           THEN Return(t, rec, Ok(Unwrap(block)))
           ELSE WaitLock(t, rec)

\* Blockchain::total_difficulty_by_hash(hash)
total_difficulty_by_hash(t, hash) ==
    /\ Idle(t)
    /\ UNCHANGED <<fork_block_number, local_storage, remote_cache, creation, conversion>>
    /\ LET rec == Enter("total_difficulty_by_hash", hash)
           difficulty == contiguous_total_difficulty_by_hash(local_storage, hash)
       IN  IF IsSome(difficulty)
           THEN Return(t, rec, Ok(difficulty))
           ELSE WaitLock(t, rec)

----------------------------------------------------------------------------
\* The read handlers, from the remote cache on

\* remote_cache.upgradable_read() and the lookup under it: a hit returns (and
\* drops the hold), a miss issues the RPC request with the hold kept.
cache_lookup(t) ==
    /\ th[t].pc = "lock"
    /\ upgradable_read(t)
    /\ UNCHANGED <<fork_block_number, local_storage, remote_cache, creation, conversion>>
    /\ LET hit == CachedResult(th[t])
       IN  IF IsSome(hit)
           THEN Return(t, th[t], Unwrap(hit))
           ELSE /\ th' = [th EXCEPT ![t].pc = "rpc", ![t].rpcs = @ + 1]
                /\ UNCHANGED served

\* A failing RPC request that leaves the fork block in the remote cache.
rpc_error_admit(t) ==
    /\ th[t].pc \in {"rpc", "txrpc"}
    /\ UNCHANGED <<fork_block_number, local_storage, creation, conversion>>
    /\ remote_cache' =
          sparse_insert_block_unchecked(remote_cache, RemoteEntry(fork_block_number))
    /\ Return(t, th[t], Err(JsonRpcError))

\* The RPC request fails: `?` returns the error and drops the hold.
rpc_error(t) ==
    /\ th[t].pc \in {"rpc", "txrpc"}
    /\ UNCHANGED <<fork_block_number, local_storage, remote_cache, creation, conversion>>
    /\ Return(t, th[t], Err(JsonRpcError))

\* The RPC request for a block answers.
rpc_block(t) ==
    /\ th[t].pc = "rpc"
    /\ UNCHANGED <<fork_block_number, local_storage, remote_cache, creation, conversion>>
    /\ LET answer == Fetch(th[t])
       IN  IF IsSome(answer)
           THEN /\ th' = [th EXCEPT ![t].pc = "upgrade", ![t].fetched = answer]
                /\ UNCHANGED served
           ELSE Return(t, th[t], Ok(None))

\* RwLockUpgradableReadGuard::upgrade and insert_block_unchecked
admit(t) ==
    /\ th[t].pc = "upgrade"
    /\ upgrade(t)
    /\ UNCHANGED <<fork_block_number, local_storage, creation, conversion>>
    /\ LET entry == Unwrap(th[t].fetched)
       IN  /\ remote_cache' = sparse_insert_block_unchecked(remote_cache, entry)
           /\ Return(t, th[t], AdmittedResult(th[t], entry))

\* block_by_transaction_hash: remote_cache.read() gives the plain read hold.
read_lock(t) ==
    /\ th[t].pc = "readlock"
    /\ read(t)
    /\ th' = [th EXCEPT ![t].pc = "read"]
    /\ UNCHANGED <<fork_block_number, local_storage, remote_cache, served, creation, conversion>>

\* block_by_transaction_hash that asks the remote without looking in the cache.
read_lookup_miss(t) ==
    /\ th[t].pc = "read"
    /\ UNCHANGED <<fork_block_number, local_storage, remote_cache, served, creation, conversion>>
    /\ th' = [th EXCEPT ![t].pc = "txrpc", ![t].rpcs = @ + 1]

\* block_by_transaction_hash: the lookup under remote_cache.read(); the hold
\* is dropped at the end of the statement, before the RPC request.
read_lookup(t) ==
    /\ th[t].pc = "read"
    /\ UNCHANGED <<fork_block_number, local_storage, remote_cache, served, creation, conversion>>
    /\ LET block == sparse_block_by_transaction_hash(remote_cache, th[t].arg)
       IN  IF IsSome(block)
           THEN th' = [th EXCEPT ![t] = Returned(th[t], Ok(block))]
           ELSE th' = [th EXCEPT ![t].pc = "txrpc", ![t].rpcs = @ + 1]

\* block_by_transaction_hash: get_transaction_by_hash answers; a transaction
\* found leads into block_by_hash(&transaction.hash).
rpc_transaction(t) ==
    /\ th[t].pc = "txrpc"
    /\ UNCHANGED <<fork_block_number, local_storage, remote_cache, creation, conversion>>
    /\ LET transaction == get_transaction_by_hash(th[t].arg)
       IN  IF IsSome(transaction)
           THEN block_by_hash_from(t, [th[t] EXCEPT !.key = Unwrap(transaction).hash])
           ELSE Return(t, th[t], Ok(None))

----------------------------------------------------------------------------
\* insert_block.  It takes &mut self, so it runs with no other call in
\* progress, and the calls it makes run to their end inside it.  rpc_ok says
\* whether an RPC request made by its last_block() succeeds, lookup_rpc_ok
\* whether one made by its total_difficulty_by_hash() does.

\* last_block() that fetches the fork block without looking in the cache.
last_block_call_refetch(cache, rpc_ok) ==
    LET local == last(blocks(local_storage))
        entry == get_block_by_number_with_transaction_data(fork_block_number)
    IN  IF IsSome(local)
        THEN [ret |-> Ok(Unwrap(local)), cache |-> cache, rpcs |-> 0]
        ELSE IF rpc_ok
        THEN [ret |-> Ok(entry.block),
              cache |-> sparse_insert_block_unchecked(cache, entry), rpcs |-> 1]
        ELSE [ret |-> Err(JsonRpcError), cache |-> cache, rpcs |-> 1]

\* last_block() that fetches the fork block and leaves it out of the cache.
last_block_call_unadmitted(cache, rpc_ok) ==
    LET local == last(blocks(local_storage))
        cached == sparse_block_by_number(cache, fork_block_number)
        entry == get_block_by_number_with_transaction_data(fork_block_number)
    IN  IF IsSome(local)
        THEN [ret |-> Ok(Unwrap(local)), cache |-> cache, rpcs |-> 0]
        ELSE IF IsSome(cached)
        THEN [ret |-> Ok(Unwrap(cached)), cache |-> cache, rpcs |-> 0]
        ELSE IF rpc_ok
        THEN [ret |-> Ok(entry.block), cache |-> cache, rpcs |-> 1]
        ELSE [ret |-> Err(JsonRpcError), cache |-> cache, rpcs |-> 1]

\* self.last_block() run to its end: [ret, cache, rpcs].
last_block_call(cache, rpc_ok) ==
    LET local == last(blocks(local_storage))
        cached == sparse_block_by_number(cache, fork_block_number)
        entry == get_block_by_number_with_transaction_data(fork_block_number)
    IN  IF IsSome(local)
        THEN [ret |-> Ok(Unwrap(local)), cache |-> cache, rpcs |-> 0]
        ELSE IF IsSome(cached)
        THEN [ret |-> Ok(Unwrap(cached)), cache |-> cache, rpcs |-> 0]
        ELSE IF rpc_ok
        THEN [ret |-> Ok(entry.block),
              cache |-> sparse_insert_block_unchecked(cache, entry), rpcs |-> 1]
        ELSE [ret |-> Err(JsonRpcError), cache |-> cache, rpcs |-> 1]

\* self.total_difficulty_by_hash(hash) run to its end: [ret, cache, rpcs].
total_difficulty_by_hash_call(cache, hash, rpc_ok) ==
    LET local == contiguous_total_difficulty_by_hash(local_storage, hash)
        cached == sparse_total_difficulty_by_hash(cache, hash)
        answer == get_block_by_hash_with_transaction_data(hash)
    IN  IF IsSome(local)
        THEN [ret |-> Ok(local), cache |-> cache, rpcs |-> 0]
        ELSE IF IsSome(cached)
        THEN [ret |-> Ok(cached), cache |-> cache, rpcs |-> 0]
        ELSE IF ~rpc_ok
        THEN [ret |-> Err(JsonRpcError), cache |-> cache, rpcs |-> 1]
        ELSE IF IsSome(answer)
        THEN [ret |-> Ok(Some(Unwrap(answer).total_difficulty)),
              cache |-> sparse_insert_block_unchecked(cache, Unwrap(answer)), rpcs |-> 1]
        ELSE [ret |-> Ok(None), cache |-> cache, rpcs |-> 1]

\* The next block number taken one too far.
next_block_number_off(block) == block.header.number + 2

\* let next_block_number = last_block.header.number + U256::from(1)
next_block_number(block) == block.header.number + 1

\* The number check with < for !=.
number_mismatch_less(block, expected) == block.header.number < expected

\* if block.header.number != next_block_number
number_mismatch(block, expected) == block.header.number /= expected

\* if block.header.parent_hash != last_hash
parent_mismatch(block, last_hash) == block.header.parent_hash /= last_hash

\* The total difficulty without the block's own difficulty.
total_difficulty_previous(previous_total_difficulty, block) ==
    previous_total_difficulty

\* let total_difficulty = previous_total_difficulty + block.header.difficulty
total_difficulty(previous_total_difficulty, block) ==
    previous_total_difficulty + block.header.difficulty

Panic(message) == <<"panic", message>>

\* The whole of insert_block(block): [ret, cache, storage, rpcs].
insert_block_call(block, rpc_ok, lookup_rpc_ok) ==
    LET lb == last_block_call(remote_cache, rpc_ok)
        same == [ret |-> lb.ret, cache |-> lb.cache, storage |-> local_storage,
                 rpcs |-> lb.rpcs]
    IN  IF IsErr(lb.ret)
        THEN same
        ELSE
        LET expected == next_block_number(lb.ret[2])
            last_hash == Hash(lb.ret[2].header)
            td == total_difficulty_by_hash_call(lb.cache, last_hash, lookup_rpc_ok)
            rpcs == lb.rpcs + td.rpcs
        IN  IF number_mismatch(block, expected)
            THEN [same EXCEPT !.ret = Err(InvalidBlockNumber(block.header.number, expected))]
            ELSE IF parent_mismatch(block, last_hash)
            THEN [same EXCEPT !.ret = Err(InvalidParentHash)]
            ELSE IF IsErr(td.ret)
            THEN [same EXCEPT !.ret = Panic("No error can occur as it is stored locally"),
                              !.cache = td.cache, !.rpcs = rpcs]
            ELSE IF td.ret[2] = None
            THEN [same EXCEPT !.ret = Panic("Must exist as its block is stored"),
                              !.cache = td.cache, !.rpcs = rpcs]
            ELSE [ret |-> Ok(<<>>), cache |-> td.cache, rpcs |-> rpcs,
                  storage |-> contiguous_insert_block_unchecked(local_storage,
                      [block |-> block,
                       total_difficulty |-> total_difficulty(Unwrap(td.ret[2]), block)])]

\* BlockchainMut::insert_block(block)
insert_block(t, block) ==
    /\ Exclusive
    /\ \E rpc_ok \in BOOLEAN, lookup_rpc_ok \in BOOLEAN :
          LET call == insert_block_call(block, rpc_ok, lookup_rpc_ok)
          IN  /\ Len(call.storage) <= MaxLocal
              /\ remote_cache' = call.cache
              /\ local_storage' = call.storage
              /\ th' = [th EXCEPT ![t] = [Returned(Enter("insert_block", block), call.ret)
                                             EXCEPT !.rpcs = call.rpcs]]
    /\ UNCHANGED <<fork_block_number, served, creation, conversion>>

----------------------------------------------------------------------------
\* Construction: ForkedBlockchain::new(runtime, spec_id, remote_url,
\* fork_block_number), one step from its arguments and the answers of the
\* remote to its outcome.  Numbers are U256 values; none of the sums and
\* differences below leaves the range (the differences are guarded).

\* const FALLBACK_MAX_REORG: u64 = 30
FALLBACK_MAX_REORG == 30

\* The chain ids the remote can answer: those of the reorg table and one more.
ChainIds == {1, 3, 4, 5, 42, 100, 1337}

\* What determine_hardfork(&chain_id, &fork_block_number) can answer: None for
\* an unsupported chain, a hardfork before SPURIOUS_DRAGON, or a later one.
Hardforks == {None, Some("HOMESTEAD"), Some("SPURIOUS_DRAGON")}

\* hardfork < SpecId::SPURIOUS_DRAGON
BeforeSpuriousDragon(hardfork) == hardfork = "HOMESTEAD"

\* The requests of tokio::join!; one of them, or none, fails.
Requests == {"chain_id", "network_id", "block_number"}

\* The reorg table without its entry for chain 100.
largest_possible_reorg_short(chain_id) ==
    CASE chain_id = 1 -> Some(5)
      [] chain_id = 3 -> Some(100)
      [] chain_id = 4 -> Some(5)
      [] chain_id = 5 -> Some(5)
      [] chain_id = 42 -> Some(5)
      [] OTHER -> None

\* fn largest_possible_reorg(chain_id)
largest_possible_reorg(chain_id) ==
    CASE chain_id = 1 -> Some(5)
      [] chain_id = 3 -> Some(100)
      [] chain_id = 4 -> Some(5)
      [] chain_id = 5 -> Some(5)
      [] chain_id = 42 -> Some(5)
      [] chain_id = 100 -> Some(38)
      [] OTHER -> None

\* Option::unwrap_or_else(|| default)
unwrap_or_else(option, default) == IF IsSome(option) THEN Unwrap(option) ELSE default

\* U256::saturating_sub
saturating_sub(a, b) == IF a >= b THEN a - b ELSE 0

CreationInvalidBlockNumber(fork, latest_block_number) ==
    <<"InvalidBlockNumber", fork, latest_block_number>>

UnsupportedChain(chain_id) == <<"UnsupportedChain", chain_id>>

InvalidHardfork(fork, hardfork) == <<"InvalidHardfork", fork, hardfork>>

\* The check of the requested fork block with >= for >.
number_too_large_eq(fork, latest_block_number) == fork >= latest_block_number

\* if fork_block_number > latest_block_number
number_too_large(fork, latest_block_number) == fork > latest_block_number

\* A warning for every requested fork block.
is_unsafe_always(fork, safe_block_number) == TRUE

\* if fork_block_number > safe_block_number
is_unsafe(fork, safe_block_number) == fork > safe_block_number

\* The text of log::warn!: the numbers it names.
Warning(fork, latest_block_number, max_reorg, safe_block_number) ==
    LET num_confirmations == latest_block_number - fork + 1
        required_confirmations == max_reorg + 1
        missing_confirmations == required_confirmations - num_confirmations
    IN  IF missing_confirmations < 0
        THEN Panic("attempt to subtract with overflow")
        ELSE [fork_block_number |-> fork,
              required_confirmations |-> required_confirmations,
              safe_block_number |-> safe_block_number,
              missing_confirmations |-> missing_confirmations]

\* The whole of new(.., fork_block_number): [ret, fork_block_number, warning],
\* ret the Result, fork_block_number the effective fork block once it is
\* determined (an Option), warning what was logged (an Option).
new_call(requested, failed, chain_id, latest_block_number, hardfork) ==
    LET max_reorg == unwrap_or_else(largest_possible_reorg(chain_id), FALLBACK_MAX_REORG)
        safe_block_number == saturating_sub(latest_block_number, max_reorg)
        fork == IF IsSome(requested) THEN Unwrap(requested) ELSE safe_block_number
        warning ==
            IF IsSome(requested) /\ is_unsafe(fork, safe_block_number)
            THEN Some(Warning(fork, latest_block_number, max_reorg, safe_block_number))
            ELSE None
        outcome(ret) == [ret |-> ret, fork_block_number |-> Some(fork), warning |-> warning]
    IN  IF failed /= None
        THEN [ret |-> Err(JsonRpcError), fork_block_number |-> None, warning |-> None]
        ELSE IF IsSome(requested) /\ number_too_large(fork, latest_block_number)
        THEN [ret |-> Err(CreationInvalidBlockNumber(fork, latest_block_number)),
              fork_block_number |-> None, warning |-> None]
        ELSE IF hardfork = None
        THEN outcome(Err(UnsupportedChain(chain_id)))
        ELSE IF BeforeSpuriousDragon(Unwrap(hardfork))
        THEN outcome(Err(InvalidHardfork(fork, Unwrap(hardfork))))
        ELSE outcome(Ok(fork))

\* No call of new is on record.
NotCreated == [pc |-> "none"]

\* ForkedBlockchain::new, with the answers of the remote
new(requested) ==
    /\ creation = NotCreated
    /\ \E failed \in {None} \cup {Some(r) : r \in Requests},
          chain_id \in ChainIds, latest_block_number \in 0..MaxLatest,
          hardfork \in Hardforks :
          LET call == new_call(requested, failed, chain_id, latest_block_number, hardfork)
          IN  \* requested numbers up to one past the latest block
              /\ IsSome(requested) => Unwrap(requested) <= latest_block_number + 1
              \* the answers are not looked at when a request failed: one of each
              /\ failed /= None => (chain_id = 1 /\ latest_block_number = 0 /\ hardfork = None)
              /\ creation' = [pc |-> "done", requested |-> requested, failed |-> failed,
                              chain_id |-> chain_id,
                              latest_block_number |-> latest_block_number,
                              ret |-> call.ret,
                              fork_block_number |-> call.fork_block_number,
                              warning |-> call.warning]
              /\ fork_block_number' =
                    IF IsOk(call.ret) THEN call.ret[2] ELSE fork_block_number
    /\ local_storage' = <<>>
    /\ remote_cache' = EmptyBag
    /\ UNCHANGED <<th, served, conversion>>

----------------------------------------------------------------------------
\* Conversion of a JSON-RPC transaction (rethnet_eth/src/remote/eth.rs):
\* impl TryFrom<Transaction> for SignedTransaction.  The fields of the struct
\* expressions are evaluated in the order they are written in, so the first
\* `?` that fails, or the first conversion that panics, decides the outcome.

MissingAccessList == <<"MissingAccessList">>

MissingChainId == <<"MissingChainId">>

MissingMaxFeePerGas == <<"MissingMaxFeePerGas">>

MissingMaxPriorityFeePerGas == <<"MissingMaxPriorityFeePerGas">>

UnsupportedType(type) == <<"UnsupportedType", type>>

IsPanic(r) == r[1] = "panic"

\* Option::ok_or(error)
ok_or(option, error) == IF IsSome(option) THEN Ok(Unwrap(option)) ELSE Err(error)

\* Uint::to::<u64>(): the value when it fits u64, a panic when it does not.
to(value) ==
    IF value <= U64Max THEN Ok(value) ELSE Panic("Uint conversion error")

\* let kind = if let Some(to) = value.to { Call(to) } else { Create }
kind(value) ==
    IF IsSome(value.to) THEN <<"Call", Unwrap(value.to)>> ELSE <<"Create">>

\* 0 => Ok(Self::Legacy(LegacySignedTransaction { .. }))
Legacy(value) ==
    LET gas_limit == to(value.gas)
    IN  IF IsPanic(gas_limit) THEN gas_limit
        ELSE Ok([type |-> "Legacy", nonce |-> value.nonce, gas_price |-> value.gas_price,
                 gas_limit |-> gas_limit[2], kind |-> kind(value), value |-> value.value,
                 input |-> value.input,
                 signature |-> [r |-> value.r, s |-> value.s, v |-> value.v]])

\* 1 => Ok(Self::EIP2930(EIP2930SignedTransaction { .. }))
EIP2930(value) ==
    LET chain_id == ok_or(value.chain_id, MissingChainId)
        gas_limit == to(value.gas)
        access_list == ok_or(value.access_list, MissingAccessList)
    IN  IF IsErr(chain_id) THEN chain_id
        ELSE IF IsPanic(gas_limit) THEN gas_limit
        ELSE IF IsErr(access_list) THEN access_list
        ELSE Ok([type |-> "EIP2930", chain_id |-> chain_id[2], nonce |-> value.nonce,
                 gas_price |-> value.gas_price, gas_limit |-> gas_limit[2],
                 kind |-> kind(value), value |-> value.value, input |-> value.input,
                 access_list |-> access_list[2], odd_y_parity |-> value.v /= 0,
                 r |-> value.r, s |-> value.s])

\* 2 => Ok(Self::EIP1559(EIP1559SignedTransaction { .. }))
EIP1559(value) ==
    LET chain_id == ok_or(value.chain_id, MissingChainId)
        max_priority_fee_per_gas ==
            ok_or(value.max_priority_fee_per_gas, MissingMaxPriorityFeePerGas)
        max_fee_per_gas == ok_or(value.max_fee_per_gas, MissingMaxFeePerGas)
        gas_limit == to(value.gas)
        access_list == ok_or(value.access_list, MissingAccessList)
    IN  IF IsErr(chain_id) THEN chain_id
        ELSE IF IsErr(max_priority_fee_per_gas) THEN max_priority_fee_per_gas
        ELSE IF IsErr(max_fee_per_gas) THEN max_fee_per_gas
        ELSE IF IsPanic(gas_limit) THEN gas_limit
        ELSE IF IsErr(access_list) THEN access_list
        ELSE Ok([type |-> "EIP1559", chain_id |-> chain_id[2], nonce |-> value.nonce,
                 max_priority_fee_per_gas |-> max_priority_fee_per_gas[2],
                 max_fee_per_gas |-> max_fee_per_gas[2], gas_limit |-> gas_limit[2],
                 kind |-> kind(value), value |-> value.value, input |-> value.input,
                 access_list |-> access_list[2], odd_y_parity |-> value.v /= 0,
                 r |-> value.r, s |-> value.s])

\* SignedTransaction::try_from(value: Transaction)
transaction_try_from(value) ==
    CASE value.transaction_type = 0 -> Legacy(value)
      [] value.transaction_type = 1 -> EIP2930(value)
      [] value.transaction_type = 2 -> EIP1559(value)
      [] OTHER -> Err(UnsupportedType(value.transaction_type))

\* The JSON-RPC transactions converted: every type up to MaxType, every
\* presence of the optional fields, gas up to one past u64::MAX.
Transactions ==
    [transaction_type : 0..MaxType,
     to : {None, Some("0xaa")},
     gas : 0..(U64Max + 1),
     v : {0, 1},
     chain_id : {None, Some(1)},
     access_list : {None, Some(<<>>)},
     max_fee_per_gas : {None, Some(100)},
     max_priority_fee_per_gas : {None, Some(2)},
     nonce : {0}, gas_price : {7}, value : {0}, input : {<<>>}, r : {1}, s : {2}]

\* No conversion is on record.
NotConverted == [pc |-> "none"]

\* A call of SignedTransaction::try_from(value)
try_from(value) ==
    /\ conversion = NotConverted
    /\ conversion' = [pc |-> "done", value |-> value, ret |-> transaction_try_from(value)]
    /\ UNCHANGED <<fork_block_number, local_storage, remote_cache, th, served, creation>>

----------------------------------------------------------------------------
\* Conversion of a JSON-RPC block (rethnet_eth/src/remote/eth.rs):
\* impl<TX> TryFrom<Block<TX>> for crate::block::Block, with TX = Transaction.

MissingMiner == <<"MissingMiner">>

MissingNonce == <<"MissingNonce">>

\* B64::from_limbs([limb]): the 64-bit value made of the one limb.
from_limbs(limbs) == [bits |-> 64, limbs |-> limbs]

\* .into_iter().map(TryInto::try_into).collect::<Result<Vec<_>, _>>():
\* the elements are converted in list order, and the first one that does not
\* convert ends the iteration with its outcome.
RECURSIVE collect(_)
collect(transactions) ==
    IF transactions = <<>> THEN Ok(<<>>)
    ELSE LET first == transaction_try_from(Head(transactions))
         IN  IF ~IsOk(first) THEN first
             ELSE LET rest == collect(Tail(transactions))
                  IN  IF ~IsOk(rest) THEN rest
                      ELSE Ok(<<first[2]>> \o rest[2])

\* crate::block::Block::try_from(value: Block<Transaction>)
block_try_from(value) ==
    LET beneficiary == ok_or(value.miner, MissingMiner)
        nonce == ok_or(value.nonce, MissingNonce)
        transactions == collect(value.transactions)
    IN  IF IsErr(beneficiary) THEN beneficiary
        ELSE IF IsErr(nonce) THEN nonce
        ELSE IF ~IsOk(transactions) THEN transactions
        ELSE Ok([header |-> [parent_hash |-> value.parent_hash,
                             ommers_hash |-> value.sha3_uncles,
                             beneficiary |-> beneficiary[2],
                             transactions_root |-> value.transactions_root,
                             difficulty |-> value.difficulty,
                             number |-> value.number,
                             nonce |-> from_limbs(<<nonce[2]>>)],
                 transactions |-> transactions[2],
                 ommers |-> <<>>])

\* The longest list of transactions in a converted block.
MaxTransactions == 2

\* The transactions of the converted blocks: every type, with and without a
\* chain id, with a gas that fits u64 and one that does not.
BlockTransactions ==
    {tx \in Transactions :
        /\ tx.to = None
        /\ tx.v = 0
        /\ tx.gas \in {0, U64Max + 1}
        /\ tx.access_list /= None
        /\ tx.max_fee_per_gas /= None
        /\ tx.max_priority_fee_per_gas /= None}

\* The JSON-RPC blocks converted: with and without miner, nonce and uncles,
\* with every list of at most MaxTransactions transactions.
Blocks ==
    [miner : {None, Some("0xbb")},
     nonce : {None, Some(0)},
     uncles : {<<>>, <<UnknownHash>>},
     transactions : UNION {[1..n -> BlockTransactions] : n \in 0..MaxTransactions},
     parent_hash : {ZeroHash}, sha3_uncles : {UnknownHash},
     transactions_root : {0}, difficulty : {1}, number : {1}]

\* A call of crate::block::Block::try_from(value)
try_from_block(value) ==
    /\ conversion = NotConverted
    /\ conversion' = [pc |-> "block", value |-> value, ret |-> block_try_from(value)]
    /\ UNCHANGED <<fork_block_number, local_storage, remote_cache, th, served, creation>>

----------------------------------------------------------------------------
\* The arguments of the calls

NumberArgs == 0..(UsizeMax + 1)

LocalHashes == {Hash(local_storage[i].block.header) : i \in 1..Len(local_storage)}

HashArgs == RemoteHashes \cup LocalHashes \cup {UnknownHash}

\* The transaction of the block appended with a number.
LocalTx(number) == TxHash(RemoteLatest + 1 + number)

TransactionHashArgs ==
    {RemoteTx(n) : n \in RemoteNumbers}
        \cup {LocalTx(local_storage[i].block.header.number) : i \in 1..Len(local_storage)}
        \cup {TxHash(RemoteLatest + 1)}

\* The last block of the chain as a caller of insert_block knows it.
Tip ==
    IF Len(local_storage) > 0
    THEN local_storage[Len(local_storage)].block
    ELSE RemoteBlockAt[fork_block_number]

InsertArgs ==
    {MkBlock(number, parent_hash, OfferedDifficulty(number), {LocalTx(number)}) :
        number \in {last_block_number, last_block_number + 1, last_block_number + 2},
        parent_hash \in {Hash(Tip.header), UnknownHash}}

----------------------------------------------------------------------------
\* The specification

Init ==
    /\ fork_block_number \in ForkChoices
    /\ local_storage = <<>>
    /\ remote_cache = EmptyBag
    /\ th = [t \in Threads |-> NoCall]
    /\ served = [n \in RemoteNumbers |-> None]
    /\ creation = NotCreated
    /\ conversion = NotConverted

\* The reads (&self) thread t can enter, with arguments from the given sets.
Reads(t, numbers, hashes, transaction_hashes) ==
    \/ \E number \in numbers : block_hash(t, number)
    \/ \E hash \in hashes : block_by_hash(t, hash)
    \/ \E number \in numbers : block_by_number(t, number)
    \/ \E hash \in transaction_hashes : block_by_transaction_hash(t, hash)
    \/ last_block(t)
    \/ \E hash \in hashes : total_difficulty_by_hash(t, hash)

\* The calls thread t can enter, with arguments from the given sets.
Calls(t, numbers, hashes, transaction_hashes, inserts) ==
    \/ Reads(t, numbers, hashes, transaction_hashes)
    \/ \E block \in inserts : insert_block(t, block)

\* The steps of a read that thread t is in.
Steps(t) ==
    \/ cache_lookup(t)
    \/ rpc_error(t)
    \/ rpc_block(t)
    \/ admit(t)
    \/ read_lock(t)
    \/ read_lookup(t)
    \/ rpc_transaction(t)

\* The arguments of the calls that threads make concurrently: the fork block
\* and the remote block after it, by number, by hash and by transaction, and
\* the block that extends the chain.
SharedNumberArgs == {fork_block_number, fork_block_number + 1}

SharedHashArgs ==
    {Hash(RemoteBlockAt[n].header) : n \in {fork_block_number, fork_block_number + 1}}

SharedTransactionHashArgs == {RemoteTx(fork_block_number)}

SharedInsertArgs ==
    {MkBlock(last_block_number + 1, Hash(Tip.header),
             OfferedDifficulty(last_block_number + 1), {LocalTx(last_block_number + 1)})}

\* Every thread, concurrently.
Next ==
    \E t \in Threads :
        \/ Calls(t, SharedNumberArgs, SharedHashArgs, SharedTransactionHashArgs,
                 SharedInsertArgs)
        \/ Steps(t)

Spec == Init /\ [][Next]_vars

\* One caller: every call, with every argument, one call at a time.
SeqNext ==
    \/ Calls("t1", NumberArgs, HashArgs, TransactionHashArgs, InsertArgs)
    \/ Steps("t1")

SeqSpec == Init /\ [][SeqNext]_vars

\* The RPC request thread t waits for returns, with a result or an error.
rpc_returns(t) == rpc_block(t) \/ rpc_error(t) \/ rpc_transaction(t)

\* Scheduling: a thread that can run does (taking a plain read hold that no
\* waiting writer bars, its lookup under it, the return of its RPC request),
\* and the lock serves its waiters: a thread waiting for the upgradable read
\* hold, or to upgrade it, gets it if it is free again and again.
Fairness(t) ==
    /\ WF_vars(read_lock(t))
    /\ WF_vars(read_lookup(t))
    /\ WF_vars(rpc_returns(t))
    /\ SF_vars(cache_lookup(t))
    /\ SF_vars(admit(t))

\* The reads of every thread, concurrently: the calls that share the overlay
\* (&self); an insert_block (&mut self) runs with none of them in progress.
FairNext ==
    \E t \in Threads :
        \/ Reads(t, {fork_block_number}, {Hash(RemoteBlockAt[fork_block_number].header)},
                 SharedTransactionHashArgs)
        \/ Steps(t)

\* The reads under fair scheduling.
FairSpec == Init /\ [][FairNext]_vars /\ \A t \in Threads : Fairness(t)

\* Construction alone: before it there is no overlay.
NewInit ==
    /\ fork_block_number = 0
    /\ local_storage = <<>>
    /\ remote_cache = EmptyBag
    /\ th = [t \in Threads |-> NoCall]
    /\ served = [n \in RemoteNumbers |-> None]
    /\ creation = NotCreated
    /\ conversion = NotConverted

NewNext ==
    \E requested \in {None} \cup {Some(f) : f \in 0..(MaxLatest + 1)} : new(requested)

NewSpec == NewInit /\ [][NewNext]_vars

\* Conversion alone.
ConversionNext ==
    \/ \E value \in Transactions : try_from(value)
    \/ \E value \in Blocks : try_from_block(value)

ConversionSpec == NewInit /\ [][ConversionNext]_vars

----------------------------------------------------------------------------
\* Properties

\* The number of entries of the remote cache, copies counted, for a number.
CachedCopies(number) ==
    LET matching == {e \in SparseEntries(remote_cache) : e.block.header.number = number}
        count[S \in SUBSET matching] ==
            IF S = {} THEN 0
            ELSE LET e == CHOOSE x \in S : TRUE
                 IN  CopiesIn(e, remote_cache) + count[S \ {e}]
    IN  count[matching]

\* C1: whatever reads the threads interleave, the remote cache holds at most
\* one block per block number and at most one block per block hash (no entry
\* is held twice either).
C1_CacheEntriesUnique ==
    /\ \A e \in SparseEntries(remote_cache) : CopiesIn(e, remote_cache) = 1
    /\ \A e1, e2 \in SparseEntries(remote_cache) :
          (\/ e1.block.header.number = e2.block.header.number
           \/ Hash(e1.block.header) = Hash(e2.block.header)) => e1 = e2

\* C1, its case: two threads have read the same remote block, one fetched and
\* admitted it, the other was served the admitted block.
C1_Witness ==
    \E t1, t2 \in Threads :
        /\ t1 /= t2
        /\ th[t1].pc = "done" /\ th[t2].pc = "done"
        /\ th[t1].op \in ByNumberOps \cup ByHashOps
        /\ th[t2].op \in ByNumberOps \cup ByHashOps
        /\ Target(th[t1]) >= 0
        /\ Target(th[t1]) = Target(th[t2])
        /\ IsOk(th[t1].ret) /\ IsOk(th[t2].ret)
        /\ th[t1].rpcs = 1 /\ th[t2].rpcs = 0
        /\ CachedCopies(Target(th[t1])) = 1

\* C2: every block held in the remote cache has a number <= fork_block_number.
C2_CacheWithinFork ==
    \A e \in SparseEntries(remote_cache) : e.block.header.number <= fork_block_number

\* The hash of the block before position i of the local store.
ParentOf(i) ==
    IF i = 1
    THEN Hash(RemoteBlockAt[fork_block_number].header)
    ELSE Hash(local_storage[i - 1].block.header)

\* C3: the local store is contiguous: the block at position i (from 1) has
\* number fork_block_number + i, and its parent hash is the hash of the block
\* before it, the fork block for the first.
C3_LocalContiguous ==
    \A i \in 1..Len(local_storage) :
        /\ local_storage[i].block.header.number = fork_block_number + i
        /\ local_storage[i].block.header.number > fork_block_number
        /\ local_storage[i].block.header.parent_hash = ParentOf(i)

\* C3, its case: two blocks were appended and an insert_block was rejected.
C3_Witness ==
    /\ Len(local_storage) = 2
    /\ \E t \in Threads :
          /\ th[t].pc = "done"
          /\ th[t].op = "insert_block"
          /\ IsErr(th[t].ret)

\* The block of the local store with a number, as an Option.
LocalBlockNumbered(number) ==
    IF \E i \in 1..Len(local_storage) : local_storage[i].block.header.number = number
    THEN Some(local_storage[CHOOSE i \in 1..Len(local_storage) :
                  local_storage[i].block.header.number = number].block)
    ELSE None

\* C4: block_by_number(n) with n > fork_block_number returns the appended
\* block at index n - fork_block_number - 1, None past the end, and
\* BlockNumberTooLarge only for a number that is no machine index.
C4_BlockByNumberLocal ==
    \A t \in Threads :
        (/\ th[t].pc = "done"
         /\ th[t].op = "block_by_number"
         /\ th[t].arg > fork_block_number)
        => th[t].ret =
              IF th[t].arg > UsizeMax
              THEN Err(BlockNumberTooLarge)
              ELSE Ok(get(blocks(local_storage), th[t].arg - fork_block_number - 1))

\* C5: block_hash(n) returns the hash of the appended block numbered n for
\* fork_block_number < n <= last_block_number, UnknownBlockNumber past it, and
\* the hash of remote block n for n <= fork_block_number (numbers that are
\* machine indices).
C5_BlockHash ==
    \A t \in Threads :
        (/\ th[t].pc = "done"
         /\ th[t].op = "block_hash"
         /\ th[t].arg <= UsizeMax
         /\ th[t].ret /= Err(JsonRpcError))
        => th[t].ret =
              IF th[t].arg <= fork_block_number
              THEN Ok(Hash(RemoteBlockAt[th[t].arg].header))
              ELSE IF th[t].arg <= last_block_number
              THEN Ok(Hash(Unwrap(LocalBlockNumbered(th[t].arg)).header))
              ELSE Err(UnknownBlockNumber)


\* The errors of insert_block's validation.
IsValidationError(ret) ==
    /\ IsErr(ret)
    /\ ret[2][1] \in {"InvalidBlockNumber", "InvalidParentHash"}

\* What insert_block(block) answers according to its two checks, the number
\* check first.
Validation(block) ==
    IF block.header.number /= last_block_number + 1
    THEN Err(InvalidBlockNumber(block.header.number, last_block_number + 1))
    ELSE IF block.header.parent_hash /= Hash(Tip.header)
    THEN Err(InvalidParentHash)
    ELSE Ok(<<>>)

\* last_block() has the fork block to fetch: nothing is appended and the
\* fork block is not cached.
ForkBlockToFetch ==
    /\ Len(local_storage) = 0
    /\ sparse_block_by_number(remote_cache, fork_block_number) = None

\* The step is thread t's insert_block, of the block th'[t].arg.
InsertStep(t) ==
    /\ th'[t].op = "insert_block"
    /\ th'[t].arg \in InsertArgs
    /\ insert_block(t, th'[t].arg)

\* C6 as stated: insert_block(b) answers InvalidBlockNumber{actual, expected}
\* whenever b.number /= last_block_number() + 1, otherwise InvalidParentHash
\* whenever b.parent_hash /= hash(last_block()), and succeeds exactly when both
\* checks pass and the fork block was obtained.
C6_AsStated ==
    [][\A t \in Threads :
          InsertStep(t) =>
              LET block == th'[t].arg
              IN  /\ IsErr(Validation(block)) => th'[t].ret = Validation(block)
                  /\ IsOk(th'[t].ret) <=>
                        (IsOk(Validation(block)) /\ th'[t].ret /= Err(JsonRpcError))]_vars

\* C6, amended: when last_block() fails (the fork block has to be fetched and
\* the request fails) insert_block answers JsonRpcError before either check;
\* in every other case it answers as its two checks say, the number check
\* first, and succeeds exactly when both pass.
C6_Validation ==
    [][\A t \in Threads :
          InsertStep(t) =>
              IF th'[t].ret = Err(JsonRpcError)
              THEN ForkBlockToFetch /\ th'[t].rpcs = 1
              ELSE th'[t].ret = Validation(th'[t].arg)]_vars

\* C6, its case: after one block was appended, a block with the right number
\* and the wrong parent hash was rejected with InvalidParentHash.
C6_Witness ==
    \E t \in Threads :
        /\ th[t].pc = "done"
        /\ th[t].op = "insert_block"
        /\ th[t].arg.header.number = last_block_number + 1
        /\ th[t].arg.header.parent_hash /= Hash(Tip.header)
        /\ th[t].ret = Err(InvalidParentHash)
        /\ Len(local_storage) = 1

\* C7 as stated: an insert_block that answers a validation error leaves the
\* local store, the remote cache and last_block_number() as they were.
C7_AsStated ==
    [][\A t \in Threads :
          (InsertStep(t) /\ IsValidationError(th'[t].ret)) =>
              /\ local_storage' = local_storage
              /\ remote_cache' = remote_cache
              /\ last_block_number' = last_block_number]_vars

\* C7, amended: an insert_block that answers a validation error leaves the
\* local store and last_block_number() as they were, and the remote cache too
\* unless its last_block() had the fork block to fetch: then the fork block,
\* and nothing else, has been admitted.
C7_RejectionFrame ==
    [][\A t \in Threads :
          (InsertStep(t) /\ IsValidationError(th'[t].ret)) =>
              /\ local_storage' = local_storage
              /\ last_block_number' = last_block_number
              /\ IF ForkBlockToFetch
                 THEN remote_cache' =
                        remote_cache (+) SetToBag({RemoteEntry(fork_block_number)})
                 ELSE remote_cache' = remote_cache]_vars

\* C7, its case: a rejected insert_block on an overlay whose last_block() had
\* to fetch the fork block.
C7_Witness ==
    \E t \in Threads :
        /\ th[t].pc = "done"
        /\ th[t].op = "insert_block"
        /\ IsValidationError(th[t].ret)
        /\ th[t].rpcs = 1
        /\ Len(local_storage) = 0
        /\ CachedCopies(fork_block_number) = 1

\* The total difficulty of the block before position i of the local store:
\* the one the RPC reported for the fork block, for the first.
PreviousTotalDifficulty(i) ==
    IF i = 1
    THEN RemoteTotalDifficulty[fork_block_number]
    ELSE local_storage[i - 1].total_difficulty

\* C8: for every appended block, total_difficulty_by_hash(hash(block)) is the
\* total difficulty of the block before it plus the block's difficulty, as a
\* finished call returned it and as a call made now returns it.
C8_TotalDifficulty ==
    \A i \in 1..Len(local_storage) :
        LET hash == Hash(local_storage[i].block.header)
            expected == Ok(Some(PreviousTotalDifficulty(i)
                                  + local_storage[i].block.header.difficulty))
        IN  /\ total_difficulty_by_hash_call(remote_cache, hash, TRUE).ret = expected
            /\ \A t \in Threads :
                  (/\ th[t].pc = "done"
                   /\ th[t].op = "total_difficulty_by_hash"
                   /\ th[t].arg = hash) => th[t].ret = expected

\* C8, its case: total_difficulty_by_hash was called for the second appended
\* block.
C8_Witness ==
    /\ Len(local_storage) = 2
    /\ \E t \in Threads :
          /\ th[t].pc = "done"
          /\ th[t].op = "total_difficulty_by_hash"
          /\ th[t].arg = Hash(local_storage[2].block.header)
          /\ IsOk(th[t].ret)

\* The step is an insert_block that succeeds.
InsertSucceeds ==
    \E t \in Threads : InsertStep(t) /\ IsOk(th'[t].ret)

\* C9: last_block_number() grows by exactly one in every insert_block that
\* succeeds, and no other step (a read, a rejected insert_block) changes it.
C9_LastBlockNumber ==
    [][/\ last_block_number = fork_block_number + Len(local_storage)
       /\ IF InsertSucceeds
          THEN last_block_number' = last_block_number + 1
          ELSE last_block_number' = last_block_number]_vars

\* C9, its case: two insert_block calls succeeded, then one was rejected.
C9_Witness ==
    /\ last_block_number = fork_block_number + 2
    /\ \E t \in Threads :
          /\ th[t].pc = "done"
          /\ th[t].op = "insert_block"
          /\ IsValidationError(th[t].ret)

RemoteBlockOfTransaction(transaction_hash) ==
    IF \E n \in RemoteNumbers : transaction_hash \in RemoteBlockAt[n].transactions
    THEN Some(RemoteBlockAt[CHOOSE n \in RemoteNumbers :
                  transaction_hash \in RemoteBlockAt[n].transactions])
    ELSE None

\* C11: a block_by_transaction_hash(th) that missed the local store and the
\* remote cache, and whose RPC requests did not fail, returns the remote block
\* that contains th when get_transaction_by_hash finds the transaction, and
\* None when it does not.
C11_BlockByTransactionHash ==
    \A t \in Threads :
        (/\ th[t].pc = "done"
         /\ th[t].op = "block_by_transaction_hash"
         /\ th[t].rpcs >= 1
         /\ th[t].ret /= Err(JsonRpcError))
        => th[t].ret = Ok(RemoteBlockOfTransaction(th[t].arg))

\* C12: last_block() returns the last entry of the local store when there is
\* one and the remote block numbered fork_block_number otherwise, which is
\* then in the remote cache; the number of the block returned is
\* last_block_number().  This holds of a call made in any reachable state
\* (its RPC request succeeding) and of every call that returned a block.
C12_LastBlock ==
    /\ Tip.header.number = last_block_number
    /\ last_block_call(remote_cache, TRUE).ret = Ok(Tip)
    /\ \A t \in Threads :
          (th[t].pc = "done" /\ th[t].op = "last_block" /\ IsOk(th[t].ret)) =>
              /\ th[t].ret[2].header.number = last_block_number
              /\ IF Len(local_storage) > 0
                 THEN /\ th[t].ret[2] = local_storage[Len(local_storage)].block
                      /\ th[t].rpcs = 0
                 ELSE /\ th[t].ret[2] = RemoteBlockAt[fork_block_number]
                      /\ sparse_block_by_number(remote_cache, fork_block_number)
                            = Some(th[t].ret[2])

\* C12, its case: last_block() returned the second appended block.
C12_Witness ==
    /\ Len(local_storage) = 2
    /\ \E t \in Threads :
          /\ th[t].pc = "done"
          /\ th[t].op = "last_block"
          /\ th[t].ret = Ok(local_storage[2].block)

\* C13: no block number is the number of a block of the remote cache and of
\* a block of the local store.
C13_NumberInOneStore ==
    \A e \in SparseEntries(remote_cache) :
        \A i \in 1..Len(local_storage) :
            e.block.header.number /= local_storage[i].block.header.number

\* The step leaves the remote cache and the local store as they are.
StoresUnchanged == remote_cache' = remote_cache /\ local_storage' = local_storage

\* C14: a read returns JsonRpcError only from a pending RPC request; the
\* step that returns it leaves the remote cache and the local store as they
\* are and ends the thread's hold of the cache; no step of a read before its
\* admission (entering the call, taking the hold, looking the cache up,
\* issuing a request) changes the cache or the local store, and the admission
\* is the last step of a read that returns a result: a read that failed has
\* admitted nothing.
C14_FailedRead ==
    [][\A t \in Threads :
          th'[t] /= th[t] =>
              /\ (th[t].pc = "done" /\ th'[t].op /= "insert_block") => StoresUnchanged
              /\ th[t].pc \in {"lock", "rpc", "read", "txrpc"} => StoresUnchanged
              /\ th[t].pc = "upgrade" => (th'[t].pc = "done" /\ IsOk(th'[t].ret))
              /\ (th[t].pc /= "done" /\ th'[t].ret = Err(JsonRpcError)) =>
                    /\ th[t].pc \in {"rpc", "txrpc"}
                    /\ th[t].rpcs >= 1
                    /\ th'[t].pc = "done"
                    /\ t \notin UpgradableHolders' \cup Readers']_vars

\* C14, its case: a thread's block_by_number(n) returned JsonRpcError with
\* nothing admitted, and the same read, made again by the other thread, took
\* the hold, fetched block n and admitted it.
C14_Witness ==
    \E t1, t2 \in Threads :
        /\ t1 /= t2
        /\ th[t1].pc = "done" /\ th[t2].pc = "done"
        /\ th[t1].op = "block_by_number" /\ th[t2].op = "block_by_number"
        /\ th[t1].arg <= fork_block_number
        /\ th[t1].arg = th[t2].arg
        /\ th[t1].ret = Err(JsonRpcError)
        /\ th[t2].rpcs = 1
        /\ th[t2].ret = Ok(Some(RemoteBlockAt[th[t2].arg]))
        /\ CachedCopies(th[t2].arg) = 1

\* A block with the number is in the remote cache.
CachedByNumber(number) ==
    \E e \in SparseEntries(remote_cache) : e.block.header.number = number

\* A block with the hash is in the local store or in the remote cache.
StoredByHash(hash) ==
    \/ \E i \in 1..Len(local_storage) : Hash(local_storage[i].block.header) = hash
    \/ \E e \in SparseEntries(remote_cache) : Hash(e.block.header) = hash

\* A block with the transaction is in the local store or in the remote cache.
StoredByTransaction(hash) ==
    \/ \E i \in 1..Len(local_storage) : hash \in local_storage[i].block.transactions
    \/ \E e \in SparseEntries(remote_cache) : hash \in e.block.transactions

\* The target of the read rec is in the local store or in the remote cache.
TargetStored(rec) ==
    CASE rec.op \in {"block_hash", "block_by_number"} -> CachedByNumber(rec.key)
      [] rec.op = "last_block" ->
            Len(local_storage) > 0 \/ CachedByNumber(fork_block_number)
      [] rec.op \in {"block_by_hash", "total_difficulty_by_hash"} ->
            StoredByHash(rec.key)
      [] rec.op = "block_by_transaction_hash" ->
            IF rec.pc = "lock" THEN StoredByHash(rec.key) ELSE StoredByTransaction(rec.arg)

\* C15: a read issues an RPC request only in a state where its target is in
\* neither the local store nor the remote cache; a read that finds its target
\* stored returns a result with no request issued and the cache as it was;
\* a read changes the cache only by admitting what a request of its own
\* fetched; and block_by_number(n) and block_hash(n) with
\* n > fork_block_number return at once, with no request.
C15_StoredReadsNoRpc ==
    [][\A t \in Threads :
          (th'[t] /= th[t] /\ th'[t].op /= "insert_block") =>
              /\ th[t].pc = "done" =>
                    /\ th'[t].rpcs = 0
                    /\ remote_cache' = remote_cache
                    /\ (th'[t].op \in {"block_hash", "block_by_number"}
                          /\ th'[t].arg > fork_block_number) => th'[t].pc = "done"
              /\ (th[t].pc /= "done" /\ th'[t].rpcs > th[t].rpcs) => ~TargetStored(th[t])
              /\ (th[t].pc \in {"lock", "read"} /\ TargetStored(th[t])) =>
                    /\ th'[t].pc = "done"
                    /\ IsOk(th'[t].ret)
                    /\ th'[t].rpcs = th[t].rpcs
                    /\ remote_cache' = remote_cache
              /\ remote_cache' /= remote_cache =>
                    (th[t].pc = "upgrade" /\ th[t].rpcs >= 1)]_vars

\* C15, its case: block_by_transaction_hash was served the block of the
\* transaction from the remote cache, with no RPC request.
C15_Witness ==
    \E t \in Threads :
        /\ th[t].pc = "done"
        /\ th[t].op = "block_by_transaction_hash"
        /\ th[t].rpcs = 0
        /\ Len(local_storage) = 0
        /\ IsOk(th[t].ret) /\ IsSome(th[t].ret[2])
        /\ th[t].arg \in th[t].ret[2][1].transactions
        /\ StoredByTransaction(th[t].arg)

\* The reorg depth of a chain: the entries of the reorg policy, 30 otherwise.
ReorgDepth(chain_id) ==
    IF chain_id = 1 THEN 5
    ELSE IF chain_id = 3 THEN 100
    ELSE IF chain_id = 4 THEN 5
    ELSE IF chain_id = 5 THEN 5
    ELSE IF chain_id = 42 THEN 5
    ELSE IF chain_id = 100 THEN 38
    ELSE 30

\* latest_block_number minus the reorg depth of the chain, not below 0.
SafeBlockNumber(chain_id, latest_block_number) ==
    IF latest_block_number < ReorgDepth(chain_id)
    THEN 0
    ELSE latest_block_number - ReorgDepth(chain_id)

\* new has answered, its three requests having succeeded.
Created == creation.pc = "done" /\ creation.failed = None

\* C16: with the fork block number omitted, the effective fork block number
\* is latest_block_number minus the reorg depth of the chain, 0 when that is
\* negative, and it is the fork_block_number of the overlay constructed.
C16_DefaultFork ==
    (Created /\ creation.requested = None) =>
        LET safe == SafeBlockNumber(creation.chain_id, creation.latest_block_number)
        IN  /\ creation.fork_block_number = Some(safe)
            /\ creation.warning = None
            /\ creation.ret \in {Ok(safe), Err(UnsupportedChain(creation.chain_id)),
                                 Err(InvalidHardfork(safe, "HOMESTEAD"))}
            /\ IsOk(creation.ret) => fork_block_number = safe

\* C16, its case: latest = 100 on chain 1, no fork block number given: the
\* overlay forks from block 95.
C16_Witness ==
    /\ Created
    /\ creation.requested = None
    /\ creation.chain_id = 1
    /\ creation.latest_block_number = 100
    /\ creation.ret = Ok(95)
    /\ fork_block_number = 95

\* C17: with the fork block number f given, new answers
\* InvalidBlockNumber{f, latest_block_number} if and only if
\* f > latest_block_number; every other f is the effective fork block number,
\* above the safe block number or not, and the fork_block_number of the
\* overlay constructed.
C17_RequestedFork ==
    (Created /\ creation.requested /= None) =>
        LET f == Unwrap(creation.requested)
            latest == creation.latest_block_number
        IN  /\ creation.ret = Err(CreationInvalidBlockNumber(f, latest)) <=> f > latest
            /\ f <= latest =>
                  /\ creation.fork_block_number = Some(f)
                  /\ creation.ret \in {Ok(f), Err(UnsupportedChain(creation.chain_id)),
                                       Err(InvalidHardfork(f, "HOMESTEAD"))}
                  /\ IsOk(creation.ret) => fork_block_number = f

\* C17, its case: f = latest_block_number + 1 was rejected.
C17_Witness ==
    /\ Created
    /\ creation.latest_block_number = 100
    /\ creation.requested = Some(101)
    /\ creation.ret = Err(CreationInvalidBlockNumber(101, 100))

\* C18 as stated: with the fork block number given as latest_block_number,
\* new takes it as the fork block number and logs the warning, whatever
\* latest_block_number and the chain id are.
C18_AsStated ==
    (Created /\ creation.requested = Some(creation.latest_block_number)) =>
        /\ creation.fork_block_number = creation.requested
        /\ creation.warning /= None

\* C18, amended: with the fork block number given as latest_block_number, new
\* takes it as the fork block number on every chain; it logs the warning
\* (asking for the reorg depth plus one confirmations, the reorg depth of them
\* missing) if and only if latest_block_number > 0: at 0 the safe block
\* number is 0 too and nothing is logged.
C18_WarningAtLatest ==
    (Created /\ creation.requested = Some(creation.latest_block_number)) =>
        LET latest == creation.latest_block_number
            depth == ReorgDepth(creation.chain_id)
        IN  /\ creation.fork_block_number = Some(latest)
            /\ creation.ret \notin {Err(CreationInvalidBlockNumber(latest, latest)),
                                    Err(JsonRpcError)}
            /\ creation.warning /= None <=> latest > 0
            /\ latest > 0 =>
                  creation.warning =
                      Some([fork_block_number |-> latest,
                            required_confirmations |-> depth + 1,
                            safe_block_number |-> SafeBlockNumber(creation.chain_id, latest),
                            missing_confirmations |-> depth])

\* C18, its case: latest = 100 on chain 100, fork block number 100 given: the
\* overlay forks from block 100 and the warning was logged.
C18_Witness ==
    /\ Created
    /\ creation.chain_id = 100
    /\ creation.latest_block_number = 100
    /\ creation.requested = Some(100)
    /\ creation.ret = Ok(100)
    /\ creation.warning /= None

\* The required fields of a transaction type that the transaction lacks.
AbsentRequired(value) ==
    LET required ==
            CASE value.transaction_type = 1 -> {"chain_id", "access_list"}
              [] value.transaction_type = 2 ->
                    {"chain_id", "access_list", "max_fee_per_gas", "max_priority_fee_per_gas"}
              [] OTHER -> {}
    IN  {f \in required : value[f] = None}

\* The Missing* error that names a field.
MissingError(field) ==
    CASE field = "chain_id" -> MissingChainId
      [] field = "access_list" -> MissingAccessList
      [] field = "max_fee_per_gas" -> MissingMaxFeePerGas
      [] field = "max_priority_fee_per_gas" -> MissingMaxPriorityFeePerGas

\* The envelope of a transaction type.
Envelope(type) ==
    CASE type = 0 -> "Legacy" [] type = 1 -> "EIP2930" [] type = 2 -> "EIP1559"

\* C19: the conversion of a transaction of type 0, 1 or 2 with every field
\* its type requires returns the type's envelope (Legacy for 0, with any
\* optional fields); with exactly one required field absent it returns the
\* Missing* error that names the field; for any other type k it returns
\* UnsupportedType(k).
C19_Dispatch ==
    conversion.pc = "done" =>
        LET value == conversion.value
            ret == conversion.ret
            absent == AbsentRequired(value)
        IN  IF value.transaction_type \notin {0, 1, 2}
            THEN ret = Err(UnsupportedType(value.transaction_type))
            ELSE /\ absent = {} =>
                      (IsOk(ret) /\ ret[2].type = Envelope(value.transaction_type))
                 /\ \A field \in absent :
                      absent = {field} => ret = Err(MissingError(field))

\* C20: the conversion of a transaction of type 0, 1 or 2 with every field
\* its type requires returns a signed transaction, whatever its other fields
\* are, gas among them, and gas_limit is the 64-bit view of gas.
C20_Total ==
    (/\ conversion.pc = "done"
     /\ conversion.value.transaction_type \in {0, 1, 2}
     /\ AbsentRequired(conversion.value) = {})
    => /\ IsOk(conversion.ret)
       /\ conversion.ret[2].gas_limit = conversion.value.gas % (U64Max + 1)

\* The outcomes of converting the transactions of a block one by one.
Converted(value) ==
    [i \in 1..Len(value.transactions) |-> transaction_try_from(value.transactions[i])]

\* The position of the earliest transaction of a block that does not convert.
EarliestFailing(value) ==
    CHOOSE i \in 1..Len(value.transactions) :
        /\ ~IsOk(Converted(value)[i])
        /\ \A j \in 1..(i - 1) : IsOk(Converted(value)[j])

\* C21: converting an external block succeeds exactly when miner and nonce
\* are present and every transaction converts; otherwise it returns
\* MissingMiner (miner absent), MissingNonce (nonce absent) or the conversion
\* error of the earliest failing transaction; on success the transactions
\* keep their order and ommers is empty whatever the uncles are.
C21_BlockConversion ==
    conversion.pc = "block" =>
        LET value == conversion.value
            ret == conversion.ret
            all_convert ==
                \A i \in 1..Len(value.transactions) : IsOk(Converted(value)[i])
            succeeds == value.miner /= None /\ value.nonce /= None /\ all_convert
        IN  /\ IsOk(ret) <=> succeeds
            /\ ~succeeds =>
                   /\ IsErr(ret)
                   /\ \/ value.miner = None /\ ret = Err(MissingMiner)
                      \/ value.nonce = None /\ ret = Err(MissingNonce)
                      \/ ~all_convert /\ ret = Converted(value)[EarliestFailing(value)]
            /\ IsOk(ret) =>
                   /\ ret[2].transactions = [i \in 1..Len(value.transactions) |->
                                                Converted(value)[i][2]]
                   /\ ret[2].ommers = <<>>


\* C22: in insert_block, once the number and parent-hash checks have passed,
\* the lookup of the previous block's total difficulty finds a value and
\* issues no RPC request: the call never ends in one of the two "must exist"
\* panics, and when it is not rejected it succeeds with no more requests than
\* its last_block() made.
C22_LookupFinds ==
    [][\A t \in Threads :
          InsertStep(t) =>
              /\ ~IsPanic(th'[t].ret)
              /\ ~IsErr(th'[t].ret) =>
                     /\ th'[t].ret = Ok(<<>>)
                     /\ th'[t].rpcs = last_block_call(remote_cache, TRUE).rpcs]_vars

\* C22, its case: insert_block succeeded on an overlay with nothing stored
\* and nothing cached; its last_block() fetched and admitted the fork block,
\* and the lookup found the total difficulty there.
C22_Witness ==
    \E t \in Threads :
        /\ th[t].pc = "done"
        /\ th[t].op = "insert_block"
        /\ th[t].ret = Ok(<<>>)
        /\ th[t].rpcs = 1
        /\ Len(local_storage) = 1

\* The threads between a miss in the remote cache and their admission.
Fetching == {t \in Threads : th[t].pc \in {"rpc", "upgrade"}}

\* The reads of a block by number or by hash.
BlockReads == (ByNumberOps \cup ByHashOps) \ {"block_by_transaction_hash"}

\* Thread t read a block by number or by hash and came to the hold while
\* another thread was fetching the same, uncached, block.
CameBehind(t) == th[t].op \in BlockReads /\ th[t].behind

\* C23 as stated: at most one thread is between a cache miss and its
\* admission, and a thread that requests a block another thread is fetching
\* issues no RPC fetch of its own: it is served from the cache after the block
\* is admitted.
C23_AsStated ==
    /\ Cardinality(Fetching) <= 1
    /\ \A t \in Threads :
          CameBehind(t) =>
              /\ th[t].rpcs = 0
              /\ th[t].pc = "done" =>
                     IsOk(th[t].ret) /\ CachedCopies(Target(th[t])) = 1

\* C23: at most one thread is between a cache miss and its admission; a
\* thread is there only while its block is not in the cache, and no block is
\* admitted twice; a thread that requests a block another thread is fetching
\* issues at most one RPC fetch of its own, and only if it finds the block
\* still missing once it has the hold (the other fetch failed); with no fetch
\* of its own it is served from the cache, where the block was admitted.
C23_OneAdmission ==
    /\ Cardinality(Fetching) <= 1
    /\ \A t \in Fetching : Target(th[t]) >= 0 => CachedCopies(Target(th[t])) = 0
    /\ \A n \in RemoteNumbers : CachedCopies(n) <= 1
    /\ \A t \in Threads :
          CameBehind(t) =>
              /\ th[t].rpcs <= 1
              /\ (th[t].pc = "done" /\ th[t].rpcs = 0) =>
                     IsOk(th[t].ret) /\ CachedCopies(Target(th[t])) = 1

\* C23, its case: two threads requested the same uncached block, one by
\* number and one by hash; the first fetched and admitted it, the second came
\* behind it and was served from the cache with no fetch.
C23_Witness ==
    \E t, u \in Threads :
        /\ t /= u
        /\ th[u].pc = "done" /\ th[u].op \in ByNumberOps
        /\ th[u].rpcs = 1 /\ IsOk(th[u].ret)
        /\ th[t].pc = "done" /\ th[t].op \in ByHashOps
        /\ CameBehind(t)
        /\ Target(th[t]) = Target(th[u])
        /\ th[t].rpcs = 0 /\ IsOk(th[t].ret)
        /\ CachedCopies(Target(th[t])) = 1

\* C24: under fair scheduling, with every RPC request returning, every call
\* a thread makes returns: no thread waits forever for the upgradable read
\* hold or for its upgrade, block_by_transaction_hash included.
C24_EveryCallReturns ==
    \A t \in Threads : (th[t].pc /= "done") ~> (th[t].pc = "done")

\* C24, its case: a thread that fetched a block waits to upgrade its hold
\* while the other thread, in block_by_transaction_hash, has the plain read
\* hold.
C24_Witness ==
    \E t, u \in Threads :
        /\ t /= u
        /\ th[t].pc = "upgrade"
        /\ th[u].op = "block_by_transaction_hash" /\ th[u].pc = "read"

====
